---- MODULE Spec2Model ----
(***************************************************************************)
(* State-machine model of the QR check-in scanner:                         *)
(*   - QrScannerPage (src/src/pages/QrScanner.tsx, lines 21-272): the scan  *)
(*     settings, and the commit operation handleScan that appends an        *)
(*     ActivityLog record and then updates the participant's location;      *)
(*   - QrScanner (same file, lines 292-564): the camera component with its  *)
(*     flags (scanning, error, confirmModalOpen, ...), its timers and its   *)
(*     asynchronous handlers handleScan / handleConfirm / handleCancel.     *)
(* Every await of the source is a separate step, so that other handlers    *)
(* and timers can run between the two halves of an asynchronous handler.   *)
(* React state updates are taken to be visible to the next handler.        *)
(* Delays are not measured: a pending timer may fire at any later step.    *)
(* The open confirmation modal covers the page, so the Reset Scanner       *)
(* button and the two selects are used only while it is closed, and the    *)
(* selects are changed to a setting under which the page keeps the         *)
(* scanner mounted.  The specifications:                                   *)
(*   Spec            the mounted scanner on a store whose calls may fail,  *)
(*                   the selects being changed between scan cycles;        *)
(*   FairSpec        Spec; pending timers fire and store calls return;     *)
(*   AttendedSpec    FairSpec; the idle timeout fires and the leader       *)
(*                   answers an open confirmation modal;                   *)
(*   ReliableSpec    the mounted scanner on a store whose calls succeed,   *)
(*                   the selects being changed whenever the modal is       *)
(*                   closed;                                               *)
(*   TwoScannersSpec the scanner and a second leader's commit on one store *)
(*                   whose calls succeed;                                  *)
(*   TeardownSpec    Spec and the page unmounting the scanner.             *)
(***************************************************************************)
EXTENDS Naturals, Integers, Sequences, FiniteSets, TLC

\* ---------------------------------------------------------------- bounds
\* Most asynchronous work (handler invocations awaiting the store, one-shot
\* timers not yet fired) the user and the camera may have outstanding.
MaxPending == 2
\* Most ActivityLog records appended in one run.
MaxLogs == 2

\* ------------------------------------------------------------- constants
IDLE_TIMEOUT == 60000

null == "null"

Participants == {"p1"}
Activities == {"Art", "Music"}
Leaders == {"leader1"}
eventId == "event1"

\* The QR payload printed on each participant's badge.
qrCodeOf == [p \in Participants |-> "qr-p1"]

\* What the camera may decode: a badge, a badge with surrounding blanks, a
\* code of no participant, and the empty text.
DecodedTexts == {"qr-p1", " qr-p1 ", "qr-unknown", ""}

\* String.prototype.trim on the decoded texts.
trim(text) ==
    IF text = " qr-p1 " THEN "qr-p1" ELSE text

\* ------------------------------------------------------------- variables
VARIABLES
    \* the external store
    currentActivityId,   \* participant -> activity id or null
    activityLogs,        \* sequence of ActivityLog records, in append order
    \* QrScannerPage
    scanType,            \* "departure" | "return"
    selectedActivityId,  \* activity id or "" (none selected)
    user,                \* the signed-in leader's id or null
    mounted,             \* whether the page renders (has not torn down) QrScanner
    \* QrScanner component state
    scanning,
    scannerKey,
    error,
    confirmModalOpen,
    scannedParticipant,
    currentActivity,
    idleTimer,           \* TRUE while the idle timeout is pending
    timers,              \* kind of one-shot timer -> number pending
    \* asynchronous handler invocations suspended at an await
    scans,               \* QrScanner.handleScan invocations
    confirms,            \* QrScanner.handleConfirm invocations (inside onScan)
    \* a second leader's device
    otherCommit          \* its page's handleScan invocation in flight, if any

storeVars == <<currentActivityId, activityLogs>>
pageVars == <<scanType, selectedActivityId, user, mounted>>
flagVars == <<scanning, scannerKey, error, confirmModalOpen, scannedParticipant, currentActivity>>
timerVars == <<idleTimer, timers>>
vars == <<currentActivityId, activityLogs, scanType, selectedActivityId, user,
          mounted, scanning, scannerKey, error, confirmModalOpen, scannedParticipant,
          currentActivity, idleTimer, timers, scans, confirms, otherCommit>>

\* The one-shot timers whose handle the component does not keep.
\*   rearm        resetScanner's 500 ms timer: setScanning(true); resetIdleTimer()
\*   errorReset   3 s: setError(null); resetScanner()
\*   dupReset     3 s: setError(null); setScannedParticipant(null);
\*                     setCurrentActivity(null); resetScanner()
\*   campReset    3 s: setError(null); setScannedParticipant(null); resetScanner()
\*   confirmReset 1 s after a commit returned: resetScanner()
\*   cancelReset  0.5 s after cancel: resetScanner()
TimerKinds == {"rearm", "errorReset", "dupReset", "campReset", "confirmReset", "cancelReset"}
CooldownKinds == {"errorReset", "dupReset", "campReset"}

RECURSIVE SumTimers(_, _)
SumTimers(t, kinds) ==
    IF kinds = {} THEN 0
    ELSE LET k == CHOOSE x \in kinds : TRUE
         IN  t[k] + SumTimers(t, kinds \ {k})

\* Outstanding asynchronous work.
Pending == Len(scans) + Len(confirms) + SumTimers(timers, TimerKinds)

RemoveAt(s, i) == [j \in 1..(Len(s) - 1) |-> IF j < i THEN s[j] ELSE s[j + 1]]

setTimeout(t, kind) == [t EXCEPT ![kind] = @ + 1]
fired(t, kind) == [t EXCEPT ![kind] = @ - 1]

\* ------------------------------------------------- the store's operations
\* Mutant of departureLog: the record carries a fromActivityId.
departureLog_withFrom(participantId, activityId, leaderId) ==
    [eventId |-> eventId, participantId |-> participantId, activityId |-> activityId,
     fromActivityId |-> null, leaderId |-> leaderId, type |-> "departure"]

\* The ActivityLog records the commit builds (createActivityLog's argument).
changeLog(participantId, activityId, fromActivityId, leaderId) ==
    [eventId |-> eventId, participantId |-> participantId, activityId |-> activityId,
     fromActivityId |-> fromActivityId, leaderId |-> leaderId, type |-> "change"]

departureLog(participantId, activityId, leaderId) ==
    [eventId |-> eventId, participantId |-> participantId, activityId |-> activityId,
     leaderId |-> leaderId, type |-> "departure"]

returnLog(participantId, activityId, leaderId) ==
    [eventId |-> eventId, participantId |-> participantId, activityId |-> activityId,
     leaderId |-> leaderId, type |-> "return"]

\* getParticipantByQrCode: the participant carrying this payload, or null.
getParticipantByQrCode(qrCode) ==
    IF \E p \in Participants : qrCodeOf[p] = qrCode
    THEN CHOOSE p \in Participants : qrCodeOf[p] = qrCode
    ELSE null

\* getParticipantCurrentActivity: the activity the store holds for the participant.
getParticipantCurrentActivity(participantId) == currentActivityId[participantId]

\* updateParticipantLocation: overwrites the participant's currentActivityId.
updateParticipantLocation(participantId, activityId) ==
    [currentActivityId EXCEPT ![participantId] = activityId]

\* The stores the scanner may be opened on: nobody checked in and no record
\* yet, or the participant checked in to a class by an earlier departure scan.
InitialStores ==
    {[currentActivityId |-> [p \in Participants |-> null], activityLogs |-> <<>>]}
    \cup {[currentActivityId |-> [p \in Participants |-> a],
           activityLogs |-> <<departureLog("p1", a, "leader1")>>] : a \in Activities}

\* ------------------------------------------------ QrScanner: timer helpers
\* A state setter (setScanning, setError, ...): React applies the update
\* while the component is mounted and drops it once it is unmounted.
setState(value, old) == IF mounted THEN value ELSE old

\* resetIdleTimer: clears the pending idle timeout and schedules a new one.
resetIdleTimer == idleTimer' = TRUE

\* The timers after resetScanner ran, given the timers `t` before it:
\* the 500 ms re-arm timer is scheduled, without a handle being kept.
resetScannerTimers(t) == setTimeout(t, "rearm")

\* Mutant of resetScanner: the QrReader keeps its key and is not rebuilt.
resetScanner_keepsKey(t) ==
    /\ idleTimer' = FALSE
    /\ scanning' = setState(FALSE, scanning)
    /\ scannerKey' = scannerKey
    /\ timers' = resetScannerTimers(t)

\* resetScanner: clearTimeout(idleTimer.current); setScanning(false);
\* setScannerKey(prev + 1); setTimeout(re-arm, 500).  React compares the key
\* of two renders for identity only, so the model keeps its parity.
resetScanner(t) ==
    /\ idleTimer' = FALSE
    /\ scanning' = setState(FALSE, scanning)
    /\ scannerKey' = setState(1 - scannerKey, scannerKey)
    /\ timers' = resetScannerTimers(t)

\* --------------------------------------------------- QrScanner.handleScan
\* The props handleScan closes over when the camera calls it.
selectedActivity == IF selectedActivityId \in Activities THEN selectedActivityId ELSE null

\* The QrReader calls onScan for every frame: with null (or an empty text)
\* when the frame holds no code, with the decoded text otherwise.  It is
\* rendered only while `scanning`; a frame it was decoding when `scanning`
\* went false may still be handed over, which is what the `!scanning` test
\* of line 377 is for.
handleScan(data) ==
    /\ mounted
    /\ resetIdleTimer
    /\ IF data = null \/ data = "" \/ ~scanning
       THEN UNCHANGED <<scanning, scans>>
       ELSE /\ Pending < MaxPending
            /\ scanning' = FALSE
            /\ scans' = Append(scans, [pc |-> "getParticipantInfo",
                                       qrCode |-> trim(data),
                                       scanType |-> scanType,
                                       selectedActivity |-> selectedActivity,
                                       participant |-> null])
    /\ UNCHANGED <<storeVars, pageVars, otherCommit, scannerKey, error, confirmModalOpen,
                   scannedParticipant, currentActivity, timers, confirms>>

\* handleScan resumes after `await getParticipantInfo(qrCode)`; the page
\* passes getParticipantByQrCode itself, so a store failure throws into
\* handleScan's catch.
getParticipantInfoReturns(i, fails) ==
    /\ i \in DOMAIN scans
    /\ scans[i].pc = "getParticipantInfo"
    /\ LET participant == getParticipantByQrCode(scans[i].qrCode)
       IN  IF fails
           THEN /\ error' = setState("Error processing QR code.", error)
                /\ timers' = setTimeout(timers, "errorReset")
                /\ scans' = RemoveAt(scans, i)
                /\ UNCHANGED scannedParticipant
           ELSE IF participant = null
           THEN /\ error' = setState("Invalid QR code. Participant not found.", error)
                /\ timers' = setTimeout(timers, "errorReset")
                /\ scans' = RemoveAt(scans, i)
                /\ UNCHANGED scannedParticipant
           ELSE /\ scannedParticipant' = setState(participant, scannedParticipant)
                /\ scans' = [scans EXCEPT ![i].pc = "getParticipantCurrentActivity",
                                          ![i].participant = participant]
                /\ UNCHANGED <<error, timers>>
    /\ UNCHANGED <<storeVars, pageVars, otherCommit, scanning, scannerKey, confirmModalOpen,
                   currentActivity, idleTimer, confirms>>

\* QrScannerPage.getCurrentActivity, the prop the scanner calls: a failure
\* of the store is caught and answered with null.
getCurrentActivity(participantId, fails) ==
    IF fails THEN null ELSE getParticipantCurrentActivity(participantId)

\* Mutant of scanGuard: a return scan is never rejected.
scanGuard_noCampGuard(type, participantActivity, target) ==
    IF type = "departure" /\ participantActivity # null /\ participantActivity = target
    THEN "dupReset" ELSE "accept"

\* Whether handleScan rejects the scan after reading the participant's
\* activity, and with which cooldown callback.
scanGuard(type, participantActivity, target) ==
    IF type = "departure"
    THEN IF participantActivity # null /\ participantActivity = target
         THEN "dupReset" ELSE "accept"
    ELSE IF participantActivity = null THEN "campReset" ELSE "accept"

\* History only: once the modal is opened for a new scan, the commits still
\* in flight belong to an earlier opening (`fresh` is read by no handler).
staleConfirms == [j \in DOMAIN confirms |-> [confirms[j] EXCEPT !.fresh = FALSE]]

\* handleScan resumes after `await getParticipantCurrentActivity(participant.id)`.
getCurrentActivityReturns(i, fails) ==
    /\ i \in DOMAIN scans
    /\ scans[i].pc = "getParticipantCurrentActivity"
    /\ LET participantActivity == getCurrentActivity(scans[i].participant, fails)
           verdict == scanGuard(scans[i].scanType, participantActivity,
                                scans[i].selectedActivity)
       IN  /\ currentActivity' =
                 IF scans[i].scanType = "departure" \/ verdict = "accept"
                 THEN setState(participantActivity, currentActivity)
                 ELSE currentActivity
           /\ IF verdict = "accept"
              THEN /\ confirmModalOpen' = setState(TRUE, confirmModalOpen)
                   /\ confirms' = staleConfirms
                   /\ UNCHANGED <<error, timers>>
              ELSE /\ error' = setState(IF verdict = "dupReset"
                                        THEN "is already at this activity."
                                        ELSE "is already at camp.", error)
                   /\ timers' = setTimeout(timers, verdict)
                   /\ UNCHANGED <<confirmModalOpen, confirms>>
    /\ scans' = RemoveAt(scans, i)
    /\ UNCHANGED <<storeVars, pageVars, otherCommit, scanning, scannerKey, scannedParticipant,
                   idleTimer>>

\* ------------------------------------------- QrScanner.handleConfirm, part 2
\* What `await onScan(...)` hands back to handleConfirm.  onScan is the
\* page's validateAndHandleScan, whose handleScan catches every failure and
\* answers false: the call never throws.
returnedTrue == [value |-> TRUE, threw |-> FALSE]
returnedFalse == [value |-> FALSE, threw |-> FALSE]

\* handleConfirm after `await onScan(...)`: the lines after the await when it
\* returned (whatever the value), the catch block when it threw.
afterOnScan(outcome) ==
    IF outcome.threw
    THEN /\ error' = setState("Error updating participant activity.", error)
         /\ confirmModalOpen' = setState(FALSE, confirmModalOpen)
         /\ timers' = setTimeout(timers, "errorReset")
         /\ UNCHANGED <<scannedParticipant, currentActivity>>
    ELSE /\ confirmModalOpen' = setState(FALSE, confirmModalOpen)
         /\ scannedParticipant' = setState(null, scannedParticipant)
         /\ currentActivity' = setState(null, currentActivity)
         /\ timers' = setTimeout(timers, "confirmReset")
         /\ UNCHANGED error

\* ------------------------------------------------ QrScannerPage: the commit
\* validateAndHandleScan's checks before it calls handleScan.
validate(type, activityId) ==
    IF type = "" THEN FALSE
    ELSE IF type = "departure" /\ activityId = null THEN FALSE
    ELSE TRUE

\* Mutant of resolve: a departure from another class is logged as a departure.
resolve_noChange(type, current, activityId) ==
    IF type = "departure"
    THEN IF current # null /\ current = activityId THEN "reject" ELSE "departure"
    ELSE IF current = null THEN "reject" ELSE "return"

\* handleScan's decision once the participant's current activity is read:
\* the type of the record to append, or "reject".
resolve(type, current, activityId) ==
    IF type = "departure"
    THEN IF current # null
         THEN IF current = activityId THEN "reject" ELSE "change"
         ELSE "departure"
    ELSE IF current = null THEN "reject" ELSE "return"

\* Mutant of logRecord: the return record names the class selected on the page.
logRecord_selected(c) ==
    CASE c.kind = "change" ->
            changeLog(c.participantId, c.activityId, c.current, c.leaderId)
      [] c.kind = "departure" ->
            departureLog(c.participantId, c.activityId, c.leaderId)
      [] c.kind = "return" ->
            returnLog(c.participantId, c.activityId, c.leaderId)

\* The record handleScan hands to createActivityLog.
logRecord(c) ==
    CASE c.kind = "change" ->
            changeLog(c.participantId, c.activityId, c.current, c.leaderId)
      [] c.kind = "departure" ->
            departureLog(c.participantId, c.activityId, c.leaderId)
      [] c.kind = "return" ->
            returnLog(c.participantId, c.current, c.leaderId)

\* The location handleScan hands to updateParticipantLocation.
newLocation(c) == IF c.scanType = "departure" THEN c.activityId ELSE null

\* The transition the open modal announces for scannedParticipant:
\*   departure, currentActivity set:  "P is currently at A. Change to X?"
\*   departure, no currentActivity:   "Register P for X?"
\*   return:                          "Confirm P is returning to camp?"
\* Kept in the commit's task as history only (`announced` is read by no handler).
modalText ==
    IF scanType = "departure"
    THEN IF currentActivity # null
         THEN [type |-> "change", participantId |-> scannedParticipant,
               from |-> currentActivity, to |-> selectedActivity]
         ELSE [type |-> "departure", participantId |-> scannedParticipant,
               to |-> selectedActivity]
    ELSE [type |-> "return", participantId |-> scannedParticipant]

\* Mutant of handleConfirm: the commit does not test the leader's identity.
handleConfirm_noLeaderCheck ==
    /\ mounted
    /\ confirmModalOpen
    /\ scannedParticipant # null
    /\ LET activityId == IF selectedActivityId = "" THEN null ELSE selectedActivityId
           leaderId == user
       IN  IF ~validate(scanType, activityId)
           THEN /\ afterOnScan(returnedFalse)
                /\ Pending < MaxPending
                /\ UNCHANGED confirms
           ELSE /\ Pending < MaxPending
                /\ Len(activityLogs) + Len(confirms) + Len(otherCommit) < MaxLogs
                /\ confirms' = Append(confirms,
                      [pc |-> "getParticipantCurrentActivity",
                       participantId |-> scannedParticipant,
                       activityId |-> activityId,
                       scanType |-> scanType,
                       leaderId |-> leaderId,
                       current |-> null,
                       kind |-> "",
                       created |-> <<>>,
                       fresh |-> TRUE,
                       announced |-> modalText])
                /\ UNCHANGED <<error, confirmModalOpen, scannedParticipant,
                               currentActivity, timers>>
    /\ UNCHANGED <<storeVars, pageVars, otherCommit, scanning, scannerKey, idleTimer, scans>>

\* handleConfirm: the Confirm button, rendered while the modal shows a scanned
\* participant.  It calls onScan = validateAndHandleScan, which runs up to
\* handleScan's first await (the read of the current activity).
handleConfirm ==
    /\ mounted
    /\ confirmModalOpen
    /\ scannedParticipant # null
    /\ LET activityId == IF selectedActivityId = "" THEN null ELSE selectedActivityId
           leaderId == user
       IN  IF ~validate(scanType, activityId) \/ leaderId = null
           THEN /\ afterOnScan(returnedFalse)
                /\ Pending < MaxPending
                /\ UNCHANGED confirms
           ELSE /\ Pending < MaxPending
                /\ Len(activityLogs) + Len(confirms) + Len(otherCommit) < MaxLogs
                /\ confirms' = Append(confirms,
                      [pc |-> "getParticipantCurrentActivity",
                       participantId |-> scannedParticipant,
                       activityId |-> activityId,
                       scanType |-> scanType,
                       leaderId |-> leaderId,
                       current |-> null,
                       kind |-> "",
                       created |-> <<>>,
                       fresh |-> TRUE,
                       announced |-> modalText])
                /\ UNCHANGED <<error, confirmModalOpen, scannedParticipant,
                               currentActivity, timers>>
    /\ UNCHANGED <<storeVars, pageVars, otherCommit, scanning, scannerKey, idleTimer, scans>>

\* The page's handleScan resumes after `await getParticipantCurrentActivity`.
pageGetCurrentActivityReturns(i, fails) ==
    /\ i \in DOMAIN confirms
    /\ confirms[i].pc = "getParticipantCurrentActivity"
    /\ LET c == confirms[i]
           current == getParticipantCurrentActivity(c.participantId)
           kind == resolve(c.scanType, current, c.activityId)
       IN  IF fails \/ kind = "reject"
           THEN /\ confirms' = RemoveAt(confirms, i)
                /\ afterOnScan(returnedFalse)
           ELSE /\ confirms' = [confirms EXCEPT ![i].pc = "createActivityLog",
                                                ![i].current = current,
                                                ![i].kind = kind]
                /\ UNCHANGED <<error, confirmModalOpen, scannedParticipant,
                               currentActivity, timers>>
    /\ UNCHANGED <<storeVars, pageVars, otherCommit, scanning, scannerKey, idleTimer, scans>>

\* Mutant of createActivityLogReturns: a failed append is not caught and the
\* commit goes on to update the location.
createActivityLogReturns_uncaught(i, fails) ==
    /\ i \in DOMAIN confirms
    /\ confirms[i].pc = "createActivityLog"
    /\ activityLogs' = IF fails THEN activityLogs
                       ELSE Append(activityLogs, logRecord(confirms[i]))
    /\ confirms' = [confirms EXCEPT
          ![i].pc = "updateParticipantLocation",
          ![i].created = IF fails THEN @ ELSE Append(@, logRecord(confirms[i]))]
    /\ UNCHANGED <<error, confirmModalOpen, scannedParticipant, currentActivity, timers>>
    /\ UNCHANGED <<currentActivityId, pageVars, otherCommit, scanning, scannerKey, idleTimer, scans>>

\* ... after `await createActivityLog(...)`.
createActivityLogReturns(i, fails) ==
    /\ i \in DOMAIN confirms
    /\ confirms[i].pc = "createActivityLog"
    /\ IF fails
       THEN /\ confirms' = RemoveAt(confirms, i)
            /\ afterOnScan(returnedFalse)
            /\ UNCHANGED activityLogs
       ELSE /\ activityLogs' = Append(activityLogs, logRecord(confirms[i]))
            /\ confirms' = [confirms EXCEPT
                  ![i].pc = "updateParticipantLocation",
                  ![i].created = Append(@, logRecord(confirms[i]))]
            /\ UNCHANGED <<error, confirmModalOpen, scannedParticipant,
                           currentActivity, timers>>
    /\ UNCHANGED <<currentActivityId, pageVars, otherCommit, scanning, scannerKey, idleTimer, scans>>

\* ... after `await updateParticipantLocation(...)`: handleScan returns true.
updateParticipantLocationReturns(i, fails) ==
    /\ i \in DOMAIN confirms
    /\ confirms[i].pc = "updateParticipantLocation"
    /\ IF fails
       THEN /\ afterOnScan(returnedFalse)
            /\ UNCHANGED currentActivityId
       ELSE /\ currentActivityId' =
                  updateParticipantLocation(confirms[i].participantId,
                                            newLocation(confirms[i]))
            /\ afterOnScan(returnedTrue)
    /\ confirms' = RemoveAt(confirms, i)
    /\ UNCHANGED <<activityLogs, pageVars, otherCommit, scanning, scannerKey, idleTimer, scans>>

\* Mutant of handleCancel: the modal is closed and no reset is scheduled.
handleCancel_noReset ==
    /\ mounted
    /\ confirmModalOpen
    /\ confirmModalOpen' = FALSE
    /\ scannedParticipant' = null
    /\ currentActivity' = null
    /\ UNCHANGED <<storeVars, pageVars, otherCommit, scanning, scannerKey, error, idleTimer,
                   timers, scans, confirms>>

\* handleCancel: the Cancel button and the modal's onClose.
handleCancel ==
    /\ mounted
    /\ confirmModalOpen
    /\ Pending < MaxPending
    /\ confirmModalOpen' = FALSE
    /\ scannedParticipant' = null
    /\ currentActivity' = null
    /\ timers' = setTimeout(timers, "cancelReset")
    /\ UNCHANGED <<storeVars, pageVars, otherCommit, scanning, scannerKey, error, idleTimer,
                   scans, confirms>>

\* ------------------------------------------------------ QrScanner: timers
\* The 500 ms timer resetScanner scheduled: setScanning(true); resetIdleTimer().
rearmFires ==
    /\ timers["rearm"] > 0
    /\ scanning' = setState(TRUE, scanning)
    /\ resetIdleTimer
    /\ timers' = fired(timers, "rearm")
    /\ UNCHANGED <<storeVars, pageVars, otherCommit, scannerKey, error, confirmModalOpen,
                   scannedParticipant, currentActivity, scans, confirms>>

\* The 3 s timer of the not-found and catch paths: setError(null); resetScanner().
errorResetFires ==
    /\ timers["errorReset"] > 0
    /\ error' = setState(null, error)
    /\ resetScanner(fired(timers, "errorReset"))
    /\ UNCHANGED <<storeVars, pageVars, otherCommit, confirmModalOpen, scannedParticipant,
                   currentActivity, scans, confirms>>

\* The 3 s timer of the duplicate-departure guard.
dupResetFires ==
    /\ timers["dupReset"] > 0
    /\ error' = setState(null, error)
    /\ scannedParticipant' = setState(null, scannedParticipant)
    /\ currentActivity' = setState(null, currentActivity)
    /\ resetScanner(fired(timers, "dupReset"))
    /\ UNCHANGED <<storeVars, pageVars, otherCommit, confirmModalOpen, scans, confirms>>

\* The 3 s timer of the empty-return guard.
campResetFires ==
    /\ timers["campReset"] > 0
    /\ error' = setState(null, error)
    /\ scannedParticipant' = setState(null, scannedParticipant)
    /\ resetScanner(fired(timers, "campReset"))
    /\ UNCHANGED <<storeVars, pageVars, otherCommit, confirmModalOpen, currentActivity,
                   scans, confirms>>

\* The 1 s timer handleConfirm schedules after onScan returned.
confirmResetFires ==
    /\ timers["confirmReset"] > 0
    /\ resetScanner(fired(timers, "confirmReset"))
    /\ UNCHANGED <<storeVars, pageVars, otherCommit, error, confirmModalOpen,
                   scannedParticipant, currentActivity, scans, confirms>>

\* The 0.5 s timer handleCancel schedules.
cancelResetFires ==
    /\ timers["cancelReset"] > 0
    /\ resetScanner(fired(timers, "cancelReset"))
    /\ UNCHANGED <<storeVars, pageVars, otherCommit, error, confirmModalOpen,
                   scannedParticipant, currentActivity, scans, confirms>>

\* The idle timeout resetIdleTimer scheduled fires: resetScanner().
idleTimeout ==
    /\ idleTimer
    /\ Pending < MaxPending
    /\ resetScanner(timers)
    /\ UNCHANGED <<storeVars, pageVars, otherCommit, error, confirmModalOpen,
                   scannedParticipant, currentActivity, scans, confirms>>

\* The Reset Scanner button (onClick = resetScanner).  The confirmation
\* modal covers the page while it is open.
resetScannerClicked ==
    /\ mounted
    /\ ~confirmModalOpen
    /\ Pending < MaxPending
    /\ resetScanner(timers)
    /\ UNCHANGED <<storeVars, pageVars, otherCommit, error, confirmModalOpen,
                   scannedParticipant, currentActivity, scans, confirms>>

\* handleError: the QrReader reports a camera error.
handleError ==
    /\ mounted
    /\ scanning
    /\ Pending < MaxPending
    /\ error' = "Error accessing camera. Please check permissions."
    /\ resetScanner(timers)
    /\ UNCHANGED <<storeVars, pageVars, otherCommit, confirmModalOpen, scannedParticipant,
                   currentActivity, scans, confirms>>

\* ------------------------------------------- QrScannerPage: scan settings
\* The Scan Type select, between the two values that keep the scanner
\* rendered (a departure needs a selected class).  The open confirmation
\* modal covers the page.
setScanType(type) ==
    /\ mounted
    /\ ~confirmModalOpen
    /\ type \in {"departure", "return"}
    /\ type # scanType
    /\ type = "departure" => selectedActivityId # ""
    /\ scanType' = type
    /\ UNCHANGED <<storeVars, selectedActivityId, user, mounted, flagVars,
                   timerVars, scans, confirms, otherCommit>>

\* The Class select, rendered for departures.
setSelectedActivityId(activityId) ==
    /\ mounted
    /\ ~confirmModalOpen
    /\ scanType = "departure"
    /\ activityId \in Activities
    /\ activityId # selectedActivityId
    /\ selectedActivityId' = activityId
    /\ UNCHANGED <<storeVars, scanType, user, mounted, flagVars, timerVars,
                   scans, confirms, otherCommit>>

\* ------------------------------------------- a second leader's device
\* Another leader's QrScannerPage runs the same commit (handleScan, lines
\* 51-111) against the same store.  Of that device only the commit is
\* modelled: its scanner has accepted a scan and its leader pressed Confirm.
otherLeader == "leader2"

\* The other page's handleScan up to its first await.
otherHandleScan(participantId, type, activityId) ==
    /\ otherCommit = <<>>
    /\ validate(type, activityId)
    /\ Len(activityLogs) + Len(confirms) + Len(otherCommit) < MaxLogs
    /\ otherCommit' = <<[pc |-> "getParticipantCurrentActivity",
                       participantId |-> participantId,
                       activityId |-> activityId,
                       scanType |-> type,
                       leaderId |-> otherLeader,
                       current |-> null,
                       kind |-> ""]>>
    /\ UNCHANGED <<storeVars, pageVars, flagVars, timerVars, scans, confirms>>

\* ... after `await getParticipantCurrentActivity(participantId)`.
otherGetCurrentActivityReturns(fails) ==
    /\ otherCommit # <<>>
    /\ otherCommit[1].pc = "getParticipantCurrentActivity"
    /\ LET c == otherCommit[1]
           current == getParticipantCurrentActivity(c.participantId)
           kind == resolve(c.scanType, current, c.activityId)
       IN  otherCommit' = IF fails \/ kind = "reject" THEN <<>>
                          ELSE <<[c EXCEPT !.pc = "createActivityLog",
                                          !.current = current,
                                          !.kind = kind]>>
    /\ UNCHANGED <<storeVars, pageVars, flagVars, timerVars, scans, confirms>>

\* ... after `await createActivityLog(...)`.
otherCreateActivityLogReturns(fails) ==
    /\ otherCommit # <<>>
    /\ otherCommit[1].pc = "createActivityLog"
    /\ IF fails
       THEN /\ otherCommit' = <<>>
            /\ UNCHANGED activityLogs
       ELSE /\ activityLogs' = Append(activityLogs, logRecord(otherCommit[1]))
            /\ otherCommit' = <<[otherCommit[1] EXCEPT !.pc = "updateParticipantLocation"]>>
    /\ UNCHANGED <<currentActivityId, pageVars, flagVars, timerVars, scans, confirms>>

\* Mutant of otherUpdateParticipantLocationReturns: a coordinated store, which
\* writes the location only if it is still the one the commit read.
otherUpdateParticipantLocationReturns_ifUnchanged(fails) ==
    /\ otherCommit # <<>>
    /\ otherCommit[1].pc = "updateParticipantLocation"
    /\ currentActivityId' =
          IF fails \/ currentActivityId[otherCommit[1].participantId]
                         # otherCommit[1].current
          THEN currentActivityId
          ELSE updateParticipantLocation(otherCommit[1].participantId,
                                         newLocation(otherCommit[1]))
    /\ otherCommit' = <<>>
    /\ UNCHANGED <<activityLogs, pageVars, flagVars, timerVars, scans, confirms>>

\* ... after `await updateParticipantLocation(...)`.
otherUpdateParticipantLocationReturns(fails) ==
    /\ otherCommit # <<>>
    /\ otherCommit[1].pc = "updateParticipantLocation"
    /\ currentActivityId' =
          IF fails THEN currentActivityId
          ELSE updateParticipantLocation(otherCommit[1].participantId,
                                         newLocation(otherCommit[1]))
    /\ otherCommit' = <<>>
    /\ UNCHANGED <<activityLogs, pageVars, flagVars, timerVars, scans, confirms>>

\* ------------------------------------------------- QrScanner: teardown
\* The page stops rendering QrScanner (the leader leaves the page or clears
\* the scan type): the effect's cleanup clears the idle timeout, the only
\* timer whose handle the component keeps.
unmount ==
    /\ mounted
    /\ mounted' = FALSE
    /\ idleTimer' = FALSE
    /\ UNCHANGED <<storeVars, scanType, selectedActivityId, user, flagVars,
                   timers, scans, confirms, otherCommit>>

\* ------------------------------------------------------------------ Init
\* The state when QrScanner mounts: the page renders it only once a scan
\* type is selected and, for departures, a class is selected too.
Init ==
    /\ \E st \in InitialStores :
          /\ currentActivityId = st.currentActivityId
          /\ activityLogs = st.activityLogs
    /\ \/ scanType = "return" /\ selectedActivityId = ""
       \/ scanType = "departure" /\ selectedActivityId \in Activities
    /\ user \in Leaders \cup {null}
    /\ mounted = TRUE
    /\ scanning = TRUE
    /\ scannerKey = 0
    /\ error = null
    /\ confirmModalOpen = FALSE
    /\ scannedParticipant = null
    /\ currentActivity = null
    /\ idleTimer = FALSE
    /\ timers = [k \in TimerKinds |-> 0]
    /\ scans = <<>>
    /\ confirms = <<>>
    /\ otherCommit = <<>>

\* ------------------------------------------------------------------ Next
\* No lookup and no commit is awaiting the store.  Spec explores the leader
\* changing the scan settings between scan cycles only; ReliableSpec below
\* lets the settings change whenever the page is not covered by the modal.
BetweenCycles == scans = <<>> /\ confirms = <<>>

TimerFires ==
    \/ rearmFires
    \/ errorResetFires
    \/ dupResetFires
    \/ campResetFires
    \/ confirmResetFires
    \/ cancelResetFires

StoreReturns ==
    \/ \E i \in 1..MaxPending, fails \in BOOLEAN : getParticipantInfoReturns(i, fails)
    \/ \E i \in 1..MaxPending, fails \in BOOLEAN : getCurrentActivityReturns(i, fails)
    \/ \E i \in 1..MaxPending, fails \in BOOLEAN : pageGetCurrentActivityReturns(i, fails)
    \/ \E i \in 1..MaxPending, fails \in BOOLEAN : createActivityLogReturns(i, fails)
    \/ \E i \in 1..MaxPending, fails \in BOOLEAN : updateParticipantLocationReturns(i, fails)

Next ==
    \/ \E data \in DecodedTexts \cup {null} : handleScan(data)
    \/ handleError
    \/ handleConfirm
    \/ handleCancel
    \/ resetScannerClicked
    \/ idleTimeout
    \/ TimerFires
    \/ StoreReturns
    \/ \E type \in {"departure", "return"} : BetweenCycles /\ setScanType(type)
    \/ \E activityId \in Activities : BetweenCycles /\ setSelectedActivityId(activityId)

Spec == Init /\ [][Next]_vars

\* The browser fires every pending timer and every store call returns.
FairSpec ==
    /\ Spec
    /\ WF_vars(rearmFires)
    /\ WF_vars(errorResetFires)
    /\ WF_vars(dupResetFires)
    /\ WF_vars(campResetFires)
    /\ WF_vars(confirmResetFires)
    /\ WF_vars(cancelResetFires)
    /\ WF_vars(StoreReturns)

\* ... the idle timeout fires too, and the leader answers an open
\* confirmation modal (however often other events get in first).
AttendedSpec ==
    /\ FairSpec
    /\ WF_vars(idleTimeout)
    /\ SF_vars(handleConfirm \/ handleCancel)

\* The scanner on a store whose calls all succeed, the leader changing the
\* scan settings at any time the confirmation modal is closed.
ReliableStoreReturns ==
    \/ \E i \in 1..MaxPending : getParticipantInfoReturns(i, FALSE)
    \/ \E i \in 1..MaxPending : getCurrentActivityReturns(i, FALSE)
    \/ \E i \in 1..MaxPending : pageGetCurrentActivityReturns(i, FALSE)
    \/ \E i \in 1..MaxPending : createActivityLogReturns(i, FALSE)
    \/ \E i \in 1..MaxPending : updateParticipantLocationReturns(i, FALSE)

ReliableNext ==
    \/ \E data \in DecodedTexts \cup {null} : handleScan(data)
    \/ handleError
    \/ handleConfirm
    \/ handleCancel
    \/ resetScannerClicked
    \/ idleTimeout
    \/ TimerFires
    \/ ReliableStoreReturns
    \/ \E type \in {"departure", "return"} : setScanType(type)
    \/ \E activityId \in Activities : setSelectedActivityId(activityId)

ReliableSpec == Init /\ [][ReliableNext]_vars

\* Two leaders' devices on a store whose calls all succeed.
OtherScanner ==
    \/ \E participantId \in Participants, type \in {"departure", "return"},
          activityId \in Activities \cup {null} :
             otherHandleScan(participantId, type, activityId)
    \/ otherGetCurrentActivityReturns(FALSE)
    \/ otherCreateActivityLogReturns(FALSE)
    \/ otherUpdateParticipantLocationReturns(FALSE)

TwoScannersNext ==
    \/ \E data \in DecodedTexts \cup {null} : handleScan(data)
    \/ handleError
    \/ handleConfirm
    \/ handleCancel
    \/ resetScannerClicked
    \/ idleTimeout
    \/ TimerFires
    \/ ReliableStoreReturns
    \/ \E type \in {"departure", "return"} : BetweenCycles /\ setScanType(type)
    \/ \E activityId \in Activities : BetweenCycles /\ setSelectedActivityId(activityId)
    \/ OtherScanner

TwoScannersSpec == Init /\ [][TwoScannersNext]_vars

\* The scanner with its teardown: what runs on after the page unmounted it.
TeardownNext ==
    \/ Next
    \/ unmount

TeardownSpec == Init /\ [][TeardownNext]_vars

\* ================================================================ claims
TaskIds == 1..MaxPending

\* C1: for a participant whose current activity is A, a departure scan with
\* target A is rejected: handleScan shows an error and opens no confirmation
\* modal, and the commit, if invoked, appends no record and leaves the
\* participant's currentActivityId as it is.
C1_DuplicateDepartureRejected ==
    [][\A i \in TaskIds, fails \in BOOLEAN :
        /\ ( /\ getCurrentActivityReturns(i, fails)
             /\ scans[i].scanType = "departure"
             /\ currentActivityId[scans[i].participant] # null
             /\ currentActivityId[scans[i].participant] = scans[i].selectedActivity )
           => ( /\ error' # null
                /\ confirmModalOpen' = confirmModalOpen
                /\ UNCHANGED <<currentActivityId, activityLogs>> )
        /\ ( /\ pageGetCurrentActivityReturns(i, fails)
             /\ confirms[i].scanType = "departure"
             /\ currentActivityId[confirms[i].participantId] # null
             /\ currentActivityId[confirms[i].participantId] = confirms[i].activityId )
           => ( /\ UNCHANGED <<currentActivityId, activityLogs>>
                /\ Len(confirms') = Len(confirms) - 1 )
    ]_vars

\* C2: a commit of a departure scan with target B that read the current
\* activity A, A # B, appends exactly one record, of type 'change' with
\* fromActivityId = A and activityId = B, and then sets the participant's
\* currentActivityId to B.
C2_ChangeCommit ==
    [][\A i \in TaskIds :
        /\ ( /\ pageGetCurrentActivityReturns(i, FALSE)
             /\ confirms[i].scanType = "departure"
             /\ currentActivityId[confirms[i].participantId]
                   \notin {null, confirms[i].activityId} )
           => ( /\ confirms'[i].pc = "createActivityLog"
                /\ confirms'[i].current = currentActivityId[confirms[i].participantId]
                /\ UNCHANGED <<currentActivityId, activityLogs>> )
        /\ ( /\ i \in DOMAIN confirms
             /\ confirms[i].scanType = "departure"
             /\ confirms[i].current \notin {null, confirms[i].activityId} )
           => LET c == confirms[i]
                  record == [eventId |-> eventId,
                             participantId |-> c.participantId,
                             activityId |-> c.activityId,
                             fromActivityId |-> c.current,
                             leaderId |-> c.leaderId,
                             type |-> "change"]
              IN  /\ createActivityLogReturns(i, FALSE)
                     => ( /\ c.created = <<>>
                          /\ activityLogs' = Append(activityLogs, record)
                          /\ UNCHANGED currentActivityId )
                  /\ updateParticipantLocationReturns(i, FALSE)
                     => ( /\ c.created = <<record>>
                          /\ UNCHANGED activityLogs
                          /\ currentActivityId' =
                                [currentActivityId EXCEPT ![c.participantId] = c.activityId] )
    ]_vars

\* A change record is the last one appended and the participant is at its target.
C2_Witness ==
    /\ activityLogs # <<>>
    /\ confirms = <<>>
    /\ LET r == activityLogs[Len(activityLogs)]
       IN  /\ r.type = "change"
           /\ r.fromActivityId # r.activityId
           /\ currentActivityId[r.participantId] = r.activityId

\* C3: a commit of a departure scan with target B that read no current
\* activity appends exactly one record, of type 'departure' with activityId
\* = B and no fromActivityId, and then sets currentActivityId to B.
C3_DepartureCommit ==
    [][\A i \in TaskIds :
        /\ ( /\ pageGetCurrentActivityReturns(i, FALSE)
             /\ confirms[i].scanType = "departure"
             /\ currentActivityId[confirms[i].participantId] = null )
           => ( /\ confirms'[i].pc = "createActivityLog"
                /\ confirms'[i].current = null
                /\ UNCHANGED <<currentActivityId, activityLogs>> )
        /\ ( /\ i \in DOMAIN confirms
             /\ confirms[i].scanType = "departure"
             /\ confirms[i].pc # "getParticipantCurrentActivity"
             /\ confirms[i].current = null )
           => LET c == confirms[i]
                  record == [eventId |-> eventId,
                             participantId |-> c.participantId,
                             activityId |-> c.activityId,
                             leaderId |-> c.leaderId,
                             type |-> "departure"]
              IN  /\ "fromActivityId" \notin DOMAIN record
                  /\ createActivityLogReturns(i, FALSE)
                     => ( /\ c.created = <<>>
                          /\ activityLogs' = Append(activityLogs, record)
                          /\ UNCHANGED currentActivityId )
                  /\ updateParticipantLocationReturns(i, FALSE)
                     => ( /\ c.created = <<record>>
                          /\ UNCHANGED activityLogs
                          /\ currentActivityId' =
                                [currentActivityId EXCEPT ![c.participantId] = c.activityId] )
    ]_vars

\* The only record is a departure appended by a commit of this run, and the
\* participant is at its target.
C3_Witness ==
    /\ Len(activityLogs) = 1
    /\ confirms = <<>>
    /\ timers["confirmReset"] > 0
    /\ LET r == activityLogs[1]
       IN  /\ r.type = "departure"
           /\ "fromActivityId" \notin DOMAIN r
           /\ currentActivityId[r.participantId] = r.activityId
           /\ r.activityId = "Music"

\* C4: for a participant with no current activity a return scan is rejected:
\* handleScan shows an error and opens no confirmation modal, and the commit
\* appends no record and does not change the participant's currentActivityId.
C4_EmptyReturnRejected ==
    [][\A i \in TaskIds, fails \in BOOLEAN :
        /\ ( /\ getCurrentActivityReturns(i, fails)
             /\ scans[i].scanType = "return"
             /\ currentActivityId[scans[i].participant] = null )
           => ( /\ error' # null
                /\ confirmModalOpen' = confirmModalOpen
                /\ UNCHANGED <<currentActivityId, activityLogs>> )
        /\ ( /\ pageGetCurrentActivityReturns(i, fails)
             /\ confirms[i].scanType = "return"
             /\ currentActivityId[confirms[i].participantId] = null )
           => ( /\ UNCHANGED <<currentActivityId, activityLogs>>
                /\ Len(confirms') = Len(confirms) - 1 )
    ]_vars

\* A return scan of a participant who is nowhere has just been rejected.
C4_Witness ==
    /\ scanType = "return"
    /\ currentActivityId["p1"] = null
    /\ error = "is already at camp."
    /\ timers["campReset"] > 0
    /\ ~confirmModalOpen

\* C5: a commit of a return scan that read the current activity A appends
\* exactly one record, of type 'return' with activityId = A whatever class is
\* selected on the page, and then sets currentActivityId to none.
C5_ReturnCommit ==
    [][\A i \in TaskIds :
        /\ ( /\ pageGetCurrentActivityReturns(i, FALSE)
             /\ confirms[i].scanType = "return"
             /\ currentActivityId[confirms[i].participantId] # null )
           => ( /\ confirms'[i].pc = "createActivityLog"
                /\ confirms'[i].current = currentActivityId[confirms[i].participantId]
                /\ UNCHANGED <<currentActivityId, activityLogs>> )
        /\ ( /\ i \in DOMAIN confirms
             /\ confirms[i].scanType = "return"
             /\ confirms[i].current # null )
           => LET c == confirms[i]
                  record == [eventId |-> eventId,
                             participantId |-> c.participantId,
                             activityId |-> c.current,
                             leaderId |-> c.leaderId,
                             type |-> "return"]
              IN  /\ createActivityLogReturns(i, FALSE)
                     => ( /\ c.created = <<>>
                          /\ activityLogs' = Append(activityLogs, record)
                          /\ UNCHANGED currentActivityId )
                  /\ updateParticipantLocationReturns(i, FALSE)
                     => ( /\ c.created = <<record>>
                          /\ UNCHANGED activityLogs
                          /\ currentActivityId' =
                                [currentActivityId EXCEPT ![c.participantId] = null] )
    ]_vars

\* A return record for the class left is the last one appended while another
\* class is selected on the page, and the participant is nowhere.
C5_Witness ==
    /\ activityLogs # <<>>
    /\ confirms = <<>>
    /\ LET r == activityLogs[Len(activityLogs)]
       IN  /\ r.type = "return"
           /\ currentActivityId[r.participantId] = null
           /\ selectedActivityId \in Activities
           /\ selectedActivityId # r.activityId

\* C6: a commit writes the participant's location only after it has appended
\* its record, and a commit whose append fails ends without writing it.
C6_LogBeforeLocation ==
    /\ [][currentActivityId' # currentActivityId
            => \E i \in TaskIds :
                 /\ updateParticipantLocationReturns(i, FALSE)
                 /\ Len(confirms[i].created) = 1
                 /\ \E n \in DOMAIN activityLogs :
                       activityLogs[n] = confirms[i].created[1]]_vars
    /\ [][\A i \in TaskIds :
            createActivityLogReturns(i, TRUE)
            => ( /\ UNCHANGED <<currentActivityId, activityLogs>>
                 /\ Len(confirms') = Len(confirms) - 1 )]_vars

\* A commit has appended its record and has not written the location yet.
C6_Witness ==
    \E i \in DOMAIN confirms :
        /\ confirms[i].pc = "updateParticipantLocation"
        /\ confirms[i].created # <<>>
        /\ activityLogs[Len(activityLogs)] = confirms[i].created[1]
        /\ currentActivityId[confirms[i].participantId] = confirms[i].current

\* C7: for one opening of the confirmation modal at most one record is
\* appended: never have two commits started from the same opening both
\* appended their record.
C7_OneLogPerConfirmation ==
    Cardinality({i \in DOMAIN confirms :
                    confirms[i].fresh /\ confirms[i].created # <<>>}) <= 1

\* C8: cancelling a pending confirmation appends no log record, starts no
\* commit and changes no participant's currentActivityId, however often it
\* is repeated; it closes the modal and schedules a reset, after which the
\* scanner is ARMED (scanning) again.
C8_CancelLeavesStoreAndRearms ==
    /\ [][handleCancel
            => /\ UNCHANGED <<currentActivityId, activityLogs, confirms>>
               /\ ~confirmModalOpen'
               /\ timers'["cancelReset"] = timers["cancelReset"] + 1]_vars
    /\ (timers["cancelReset"] > 0) ~> scanning

\* Two cancelled confirmations are waiting for their re-arm delay.
C8_Witness ==
    /\ timers["cancelReset"] = 2
    /\ ~confirmModalOpen
    /\ scannedParticipant = null

\* C9: when the commit fails in the store (the read, the append or the
\* location update is rejected), handleConfirm shows an error, closes the
\* modal and schedules the 3 s error reset, not the 1 s success reset.
C9_FailedCommitTakesErrorPath ==
    [][\A i \in TaskIds :
        ( \/ pageGetCurrentActivityReturns(i, TRUE)
          \/ createActivityLogReturns(i, TRUE)
          \/ updateParticipantLocationReturns(i, TRUE) )
        => ( /\ error' # null
             /\ ~confirmModalOpen'
             /\ timers'["errorReset"] = timers["errorReset"] + 1
             /\ timers'["confirmReset"] = timers["confirmReset"] )
    ]_vars

\* C10: at most one scan-resolution cycle is in flight: never two lookups,
\* never two commits, and no lookup while a confirmation is pending or a
\* commit is running.
C10_OneCycleInFlight ==
    /\ Len(scans) <= 1
    /\ Len(confirms) <= 1
    /\ scans # <<>> => (~confirmModalOpen /\ confirms = <<>>)

\* C11: a decode event delivered while the scanner is not ARMED (scanning is
\* false) is ignored: it starts no lookup and changes no flag of the scanner
\* and no timer, the idle timeout included.
C11_DecodeWhileNotArmedIgnored ==
    [][\A data \in DecodedTexts \cup {null} :
        (~scanning /\ handleScan(data))
        => UNCHANGED <<scans, scanning, scannerKey, error, confirmModalOpen,
                       scannedParticipant, currentActivity, idleTimer, timers>>
    ]_vars

\* C12: the idle timeout rebuilds the scanner only while no confirmation is
\* pending, and while the confirmation modal stays open decoding stays
\* suspended (scanning does not become true), however long the user waits.
C12_IdleExpiryOnlyWhenArmed ==
    /\ [][idleTimeout => ~confirmModalOpen]_vars
    /\ [][(confirmModalOpen /\ confirmModalOpen' /\ ~scanning) => ~scanning']_vars

\* C13: when the idle timeout expires while the scanner is armed, the
\* scanner is rebuilt (scanning off, a new scanner key, the re-arm timer
\* scheduled, after which scanning is on again), and the expiry itself
\* appends no record, changes no location and starts no lookup or commit.
C13_IdleExpiryRebuilds ==
    /\ [][(scanning /\ idleTimeout)
            => /\ ~scanning'
               /\ scannerKey' # scannerKey
               /\ ~idleTimer'
               /\ timers'["rearm"] = timers["rearm"] + 1
               /\ UNCHANGED <<currentActivityId, activityLogs, scans, confirms>>]_vars
    /\ (timers["rearm"] > 0) ~> scanning

\* The state an idle expiry leaves an armed, otherwise idle scanner in: the
\* reader is taken down with a new key, its idle timeout is gone and the
\* re-arm timer is pending.
C13_Witness ==
    /\ ~scanning
    /\ scannerKey = 1
    /\ ~idleTimer
    /\ timers = [k \in TimerKinds |-> IF k = "rearm" THEN 1 ELSE 0]
    /\ scans = <<>> /\ confirms = <<>>
    /\ ~confirmModalOpen /\ error = null

\* C14: when the decoded code matches no participant, handleScan shows an
\* error, opens no confirmation and writes nothing to the store; while the
\* not-found cooldown is pending no decode is accepted (scanning is false);
\* and the cooldown leads through reset back to ARMED with the error cleared.
C14_NotFoundCooldown ==
    /\ [][\A i \in TaskIds :
            ( /\ getParticipantInfoReturns(i, FALSE)
              /\ getParticipantByQrCode(scans[i].qrCode) = null )
            => ( /\ error' # null
                 /\ confirmModalOpen' = confirmModalOpen
                 /\ timers'["errorReset"] = timers["errorReset"] + 1
                 /\ UNCHANGED <<currentActivityId, activityLogs, confirms>> )]_vars
    /\ []( ( /\ error = "Invalid QR code. Participant not found."
             /\ timers["errorReset"] > 0 )
           => ~scanning )
    /\ (timers["errorReset"] > 0) ~> (error = null)
    /\ (timers["errorReset"] > 0) ~> scanning

\* C15: teardown cancels every pending timer (idle, cooldown, re-arm), and
\* once the scanner is unmounted no timer callback runs, no timer is
\* scheduled and no state of the scanner changes.
C15_TeardownCancelsTimers ==
    /\ [][~mounted => UNCHANGED <<idleTimer, timers, scanning, scannerKey, error,
                                  confirmModalOpen, scannedParticipant,
                                  currentActivity>>]_vars
    /\ [][unmount => (~idleTimer' /\ timers' = [k \in TimerKinds |-> 0])]_vars

\* C16: at no time are two timers of the same kind pending for the scanner:
\* each one-shot timer is cleared before it is scheduled again.
C16_NoTimerOverlap ==
    \A k \in TimerKinds : timers[k] <= 1

\* C17: while no leader is signed in no scan is recorded: Confirm starts no
\* commit, no record is appended and no location is written; and every
\* record in the store carries the id of a leader.
C17_NoLeaderNoRecord ==
    /\ [][(user = null /\ handleConfirm)
            => UNCHANGED <<currentActivityId, activityLogs, confirms>>]_vars
    /\ [][user = null => UNCHANGED <<currentActivityId, activityLogs>>]_vars
    /\ [](\A n \in DOMAIN activityLogs : activityLogs[n].leaderId \in Leaders)

\* Confirm was pressed with no leader signed in: the commit was refused
\* before it read the store and handleConfirm scheduled its reset.
C17_Witness ==
    /\ user = null
    /\ timers["confirmReset"] > 0
    /\ ~confirmModalOpen
    /\ confirms = <<>>

\* C18: when the participant lookup or the current-activity lookup of a scan
\* fails in the store, handleScan shows an error, opens no confirmation modal
\* for that scan and schedules a cooldown, after which the scanner re-arms.
C18_LookupErrorSurfaced ==
    /\ [][\A i \in TaskIds :
            ( \/ getParticipantInfoReturns(i, TRUE)
              \/ getCurrentActivityReturns(i, TRUE) )
            => ( /\ error' # null
                 /\ confirmModalOpen' = confirmModalOpen
                 /\ SumTimers(timers', CooldownKinds)
                       = SumTimers(timers, CooldownKinds) + 1 )]_vars
    /\ (SumTimers(timers, CooldownKinds) > 0) ~> scanning

\* C19: with a single scanner and no store failures, whenever every scan
\* cycle is completed (no lookup, no commit and no confirmation pending) a
\* participant's currentActivityId is none exactly if the participant has no
\* record or the most recent one is a 'return', and is otherwise the
\* activityId of the most recent record.
C19_LocationMatchesLastRecord ==
    (scans = <<>> /\ confirms = <<>> /\ ~confirmModalOpen)
    => \A p \in Participants :
          LET mine == {n \in DOMAIN activityLogs : activityLogs[n].participantId = p}
              last == CHOOSE n \in mine : \A m \in mine : m <= n
          IN  currentActivityId[p] =
                 IF mine = {} THEN null
                 ELSE IF activityLogs[last].type = "return" THEN null
                 ELSE activityLogs[last].activityId

\* C20: the record a commit appends matches the transition the confirmation
\* modal announced when Confirm was pressed: 'Register P for X?' gives a
\* 'departure' record to X, 'P is currently at A. Change to X?' a 'change'
\* record from A to X, 'Confirm P is returning to camp?' a 'return' record,
\* each for the participant the modal named.
C20_RecordMatchesModalText ==
    [][\A i \in TaskIds :
        createActivityLogReturns(i, FALSE)
        => LET record == activityLogs'[Len(activityLogs')]
               text == confirms[i].announced
           IN  /\ record.type = text.type
               /\ record.participantId = text.participantId
               /\ text.type = "departure"
                     => ( /\ record.activityId = text.to
                          /\ "fromActivityId" \notin DOMAIN record )
               /\ text.type = "change"
                     => ( /\ record.activityId = text.to
                          /\ record.fromActivityId = text.from )
    ]_vars

\* C21: two scanners acting on the same participant are not coordinated.
\* Every commit, on either device, appends the record it built from the
\* location it read at its first await and then writes its own location,
\* whatever the other device appended or wrote in between: the location is
\* that of the last update written.  (C21_Witness is an interleaving that
\* leaves two consecutive 'departure' records and a location that is not the
\* last record's.)
C21_LastUpdateWins ==
    [][ /\ \A i \in TaskIds :
              updateParticipantLocationReturns(i, FALSE)
                 => currentActivityId'[confirms[i].participantId]
                       = (IF confirms[i].scanType = "departure"
                          THEN confirms[i].activityId ELSE null)
        /\ otherUpdateParticipantLocationReturns(FALSE)
              => currentActivityId'[otherCommit[1].participantId]
                    = (IF otherCommit[1].scanType = "departure"
                       THEN otherCommit[1].activityId ELSE null)
        /\ otherCreateActivityLogReturns(FALSE)
              => /\ Len(activityLogs') = Len(activityLogs) + 1
                 /\ activityLogs'[Len(activityLogs')].leaderId = otherLeader
                 /\ activityLogs'[Len(activityLogs')].type = "change"
                       => activityLogs'[Len(activityLogs')].fromActivityId
                             = otherCommit[1].current
      ]_vars

\* Both devices read "at camp", both appended a 'departure', and the device
\* whose record came first wrote its location last.
C21_Witness ==
    /\ confirms = <<>>
    /\ otherCommit = <<>>
    /\ Len(activityLogs) = 2
    /\ activityLogs[1].type = "departure"
    /\ activityLogs[2].type = "departure"
    /\ activityLogs[1].participantId = activityLogs[2].participantId
    /\ activityLogs[1].leaderId # activityLogs[2].leaderId
    /\ activityLogs[1].activityId # activityLogs[2].activityId
    /\ currentActivityId[activityLogs[1].participantId] = activityLogs[1].activityId

\* C22: in every reachable scanner state an open confirmation modal has a
\* scanned participant to confirm: confirmModalOpen implies
\* scannedParticipant is not null.
C22_ModalHasParticipant == confirmModalOpen => scannedParticipant # null

\* C23: every scan cycle eventually returns the scanner to ARMED.  With
\* store calls returning, timers firing and the leader answering an open
\* modal, whenever the scanner is not decoding (processing, awaiting
\* confirmation, cooling down or resetting) it eventually decodes again with
\* no error shown and no modal open.
C23_EventuallyArmed ==
    (~scanning) ~> (scanning /\ error = null /\ ~confirmModalOpen)

====
